---- MODULE Spec2Model ----
(***************************************************************************)
(* Model of libshaderc_util/src/compiler.cc: the preamble clean-up, the    *)
(* shader-stage scanner, version/profile deduction and the control flow of *)
(* Compiler::Compile.                                                      *)
(*                                                                         *)
(* A text (std::string, string_piece) is a sequence of one-character       *)
(* strings; indices named as in the source are 0-based.                    *)
(***************************************************************************)
EXTENDS Integers, Sequences, FiniteSets, TLC

VARIABLES
  default_version_,        \* Compiler::default_version_
  default_profile_,        \* Compiler::default_profile_
  force_version_profile_,  \* Compiler::force_version_profile_
  preprocess_only_,        \* Compiler::preprocess_only_
  NDEBUG,                  \* whether the build compiles assert() away
  last_forced,             \* the pair of the last SetForcedVersionProfile call
  call,                    \* the member function being applied and its arguments
  ret,                     \* what that function returned
  compile,                 \* the arguments, locals and position of Compile
  calls                    \* what the running Compile has invoked so far, in order

vars == <<default_version_, default_profile_, force_version_profile_,
          preprocess_only_, NDEBUG, last_forced, call, ret, compile, calls>>

(***************************************************************************)
(* Bounds of the model.                                                    *)
(***************************************************************************)
MaxPreambleLines == 3

MaxStageLines == 3

MaxSourceLines == 2

MaxVersionLines == 2

(***************************************************************************)
(* string_piece and libc helpers.                                          *)
(***************************************************************************)
Min(a, b) == IF a < b THEN a ELSE b

SetMin(S) == CHOOSE x \in S : \A y \in S : x <= y

SetMax(S) == CHOOSE x \in S : \A y \in S : y <= x

starts_with(s, prefix) ==
  Len(s) >= Len(prefix) /\ SubSeq(s, 1, Len(prefix)) = prefix

\* string_piece::substr(pos): the piece from 0-based position pos to the end
substr(s, pos) == SubSeq(s, pos + 1, Len(s))

\* string_piece::strip(to_strip)
strip(s, to_strip) ==
  LET kept == {i \in 1..Len(s) : s[i] \notin to_strip}
  IN IF kept = {} THEN <<>> ELSE SubSeq(s, SetMin(kept), SetMax(kept))

\* the characters of isspace() and of strip_whitespace(): space, \t, \n,
\* \r, \f and the vertical tab (written as the character itself)
Whitespace == {" ", "\t", "\n", "\r", "\f", ""}

strip_whitespace(s) == strip(s, Whitespace)

\* string_piece::get_fields(delimiter, keep_delimiter); first is the 1-based
\* position where the next field starts
RECURSIVE get_fields_from(_, _, _, _)
get_fields_from(s, delimiter, keep_delimiter, first) ==
  LET breaks == {i \in first..Len(s) : s[i] = delimiter}
  IN IF breaks = {}
       THEN IF first <= Len(s) THEN <<SubSeq(s, first, Len(s))>> ELSE <<>>
       ELSE LET field_break == SetMin(breaks)
            IN <<SubSeq(s, first,
                        IF keep_delimiter THEN field_break ELSE field_break - 1)>>
               \o get_fields_from(s, delimiter, keep_delimiter, field_break + 1)

get_fields(s, delimiter, keep_delimiter) ==
  get_fields_from(s, delimiter, keep_delimiter, 1)

\* string_piece::find(substring): 0-based position of the leftmost match,
\* npos (here -1) when there is none
find(s, sub) ==
  LET hits == {i \in 1..(Len(s) - Len(sub) + 1) : SubSeq(s, i, i + Len(sub) - 1) = sub}
  IN IF hits = {} THEN -1 ELSE SetMin(hits) - 1

Digits == <<"0", "1", "2", "3", "4", "5", "6", "7", "8", "9">>

IsDigit(c) == \E d \in 1..10 : Digits[d] = c

DigitValue(c) == (CHOOSE d \in 1..10 : Digits[d] = c) - 1

\* the range of int
INT_MAX == 2147483647

INT_MIN == -2147483647 - 1

\* the decimal digits of a negative int
RECURSIVE to_string_negative(_)
to_string_negative(n) ==
  LET digit == (10 - (n % 10)) % 10
  IN IF n > -10 THEN <<Digits[digit + 1]>>
     ELSE to_string_negative((n + digit) \div 10) \o <<Digits[digit + 1]>>

\* the decimal digits of a non-negative int
RECURSIVE to_string_natural(_)
to_string_natural(n) ==
  IF n < 10 THEN <<Digits[n + 1]>>
  ELSE to_string_natural(n \div 10) \o <<Digits[(n % 10) + 1]>>

\* std::to_string(int)
to_string(n) ==
  IF n < 0 THEN <<"-">> \o to_string_negative(n) ELSE to_string_natural(n)

\* A size_t is held as <<a2, a1, a0>>, standing for
\* a2 * 10^18 + a1 * 10^9 + a0 with a1, a0 < 10^9: a value of 64 bits does
\* not fit an integer of the model checker.
Billion == 1000 * 1000 * 1000

\* 2^64 - 1
SIZE_MAX == <<18, 446744073, 709551615>>

\* the conversion of an int to size_t: the value modulo 2^64
to_size_t(n) ==
  IF n >= 0 THEN <<0, n \div Billion, n % Billion>>
  ELSE LET low == 709551616 + (n % Billion)
       IN <<18, 446744073 + (n \div Billion) + (low \div Billion), low % Billion>>

\* ++ on a size_t: modulo 2^64
size_t_increment(n) ==
  IF n = SIZE_MAX THEN <<0, 0, 0>>
  ELSE IF n[3] + 1 < Billion THEN <<n[1], n[2], n[3] + 1>>
  ELSE IF n[2] + 1 < Billion THEN <<n[1], n[2] + 1, 0>>
  ELSE <<n[1] + 1, 0, 0>>

\* the nine decimal digits of a group below 10^9, from position k down
RECURSIVE nine_digits(_, _)
nine_digits(n, k) ==
  IF k = 0 THEN <<>>
  ELSE nine_digits(n \div 10, k - 1) \o <<Digits[(n % 10) + 1]>>

\* std::to_string(size_t)
to_string_size_t(n) ==
  IF n[1] > 0
    THEN to_string_natural(n[1]) \o nine_digits(n[2], 9) \o nine_digits(n[3], 9)
  ELSE IF n[2] > 0 THEN to_string_natural(n[2]) \o nine_digits(n[3], 9)
  ELSE to_string_natural(n[3])

\* the digits part of std::atoi: the digits are accumulated as the negated
\* value, which reaches INT_MIN; in_range is lost once the value leaves int
RECURSIVE atoi_digits(_, _)
atoi_digits(s, acc) ==
  IF s # <<>> /\ IsDigit(Head(s))
    THEN atoi_digits(Tail(s),
           IF acc.in_range
              /\ acc.negated >= (INT_MIN + DigitValue(Head(s)) + 9) \div 10
             THEN [in_range |-> TRUE,
                   negated |-> acc.negated * 10 - DigitValue(Head(s))]
             ELSE [in_range |-> FALSE, negated |-> 0])
    ELSE acc

\* the low 32 bits of the value of the digits, as <<high, low>> halves of 16
\* bits
RECURSIVE atoi_wrapped(_, _, _)
atoi_wrapped(s, high, low) ==
  IF s # <<>> /\ IsDigit(Head(s))
    THEN atoi_wrapped(Tail(s),
           ((high * 10) + (((low * 10) + DigitValue(Head(s))) \div 65536)) % 65536,
           ((low * 10) + DigitValue(Head(s))) % 65536)
    ELSE <<high, low>>

\* the int whose 32 bits are the two halves
int_of_halves(high, low) ==
  IF high >= 32768 THEN (high - 65536) * 65536 + low ELSE high * 65536 + low

\* the int whose 32 bits are those of the negated value of the two halves
int_of_negated_halves(high, low) ==
  IF low = 0 THEN int_of_halves((65536 - high) % 65536, 0)
  ELSE int_of_halves(65535 - high, 65536 - low)

\* std::atoi on digits whose value is out of the range of int: undefined
\* behaviour. The results a build can give: the value truncated to 32 bits,
\* the truncation of a saturated long (-1, 0), or the saturated int.
atoi_undefined(s, negative) ==
  LET halves == atoi_wrapped(s, 0, 0)
  IN {IF negative THEN int_of_negated_halves(halves[1], halves[2])
      ELSE int_of_halves(halves[1], halves[2]),
      IF negative THEN INT_MIN ELSE INT_MAX,
      IF negative THEN 0 ELSE -1}

\* the set of the values std::atoi can give for an optional sign already read
\* and the digits s: one value when the number is in the range of int
atoi_number(s, negative) ==
  LET acc == atoi_digits(s, [in_range |-> TRUE, negated |-> 0])
  IN IF acc.in_range /\ (negative \/ acc.negated > INT_MIN)
       THEN {IF negative THEN acc.negated ELSE 0 - acc.negated}
       ELSE atoi_undefined(s, negative)

\* std::atoi on the C string s: leading white space, an optional sign, digits;
\* the set of the values it can give
RECURSIVE atoi(_)
atoi(s) ==
  IF s = <<>> THEN {0}
  ELSE IF Head(s) \in Whitespace THEN atoi(Tail(s))
  ELSE IF Head(s) = "-" THEN atoi_number(Tail(s), TRUE)
  ELSE IF Head(s) = "+" THEN atoi_number(Tail(s), FALSE)
  ELSE atoi_number(s, FALSE)

\* text of a sequence of lines, concatenated
RECURSIVE Concat(_)
Concat(ls) == IF ls = <<>> THEN <<>> ELSE Head(ls) \o Concat(Tail(ls))

(***************************************************************************)
(* Anonymous-namespace helpers of compiler.cc.                             *)
(***************************************************************************)
LineDirectiveIsForNextLine(version, profile) ==
  profile = "EEsProfile" \/ version >= 330

\* variant: the legacy convention numbered 2
BoolToInt_LegacyTwo(b) == IF b THEN 1 ELSE 2

\* conversion of the bool argument of CleanupPreamble to the int parameter
\* of GetLineDirective
BoolToInt(b) == IF b THEN 1 ELSE 0

GetLineDirective(line, filename) ==
  <<"#","l","i","n","e"," ">> \o to_string(line) \o <<" ","\"">> \o filename \o <<"\"","\n">>

\* the literal of Compile that CleanupPreamble receives as pound_extension
kPoundExtension == <<"#","e","x","t","e","n","s","i","o","n"," ","G","L","_","G","O","O","G","L","E","_","i","n","c","l","u","d","e","_","d","i","r","e","c","t","i","v","e"," ",":"," ","e","n","a","b","l","e","\n">>

kPoundVersion == <<"#","v","e","r","s","i","o","n">>

(***************************************************************************)
(* Compiler::CleanupPreamble.                                              *)
(***************************************************************************)
\* variant: the std::min of line 238 dropped, so the last match wins
RECURSIVE FindDirectives_LastMatch(_, _, _, _, _)
FindDirectives_LastMatch(lines, pound_extension, num_include_directives, i, pound_extension_index) ==
  IF i >= Len(lines)
    THEN [pound_extension_index |-> pound_extension_index,
          pound_version_index |-> Len(lines), output |-> <<>>]
  ELSE IF lines[i + 1] = pound_extension
    THEN FindDirectives_LastMatch(lines, pound_extension, num_include_directives,
                                  i + 1, i)
  ELSE IF starts_with(lines[i + 1], kPoundVersion)
    THEN [pound_extension_index |-> pound_extension_index,
          pound_version_index |-> i,
          output |-> IF num_include_directives > 0 THEN lines[i + 1] ELSE <<>>]
  ELSE FindDirectives_LastMatch(lines, pound_extension, num_include_directives,
                                i + 1, pound_extension_index)

\* the first loop: finds the two indices, and emits the #version line when
\* there are includes; i is the 0-based loop index
RECURSIVE FindDirectives(_, _, _, _, _)
FindDirectives(lines, pound_extension, num_include_directives, i, pound_extension_index) ==
  IF i >= Len(lines)
    THEN [pound_extension_index |-> pound_extension_index,
          pound_version_index |-> Len(lines), output |-> <<>>]
  ELSE IF lines[i + 1] = pound_extension
    THEN FindDirectives(lines, pound_extension, num_include_directives, i + 1,
                        Min(i, pound_extension_index))
  ELSE IF starts_with(lines[i + 1], kPoundVersion)
    THEN [pound_extension_index |-> pound_extension_index,
          pound_version_index |-> i,
          output |-> IF num_include_directives > 0 THEN lines[i + 1] ELSE <<>>]
  ELSE FindDirectives(lines, pound_extension, num_include_directives, i + 1,
                      pound_extension_index)

\* the second loop: the lines before the injected directive, blank ones dropped
RECURSIVE EmitBeforeExtension(_, _, _)
EmitBeforeExtension(lines, i, pound_extension_index) ==
  IF i >= pound_extension_index THEN <<>>
  ELSE (IF strip_whitespace(lines[i + 1]) = <<>> THEN <<>> ELSE lines[i + 1])
       \o EmitBeforeExtension(lines, i + 1, pound_extension_index)

\* variant: the directive emitted whatever the include count
EmitExtension_Always(pound_extension, error_tag, num_include_directives, is_for_next_line) ==
  pound_extension \o GetLineDirective(BoolToInt(is_for_next_line), error_tag)

\* what is emitted between the two loops
EmitExtension(pound_extension, error_tag, num_include_directives, is_for_next_line) ==
  IF num_include_directives > 0
    THEN pound_extension \o GetLineDirective(BoolToInt(is_for_next_line), error_tag)
    ELSE <<>>

\* variant: no placeholder for the relocated #version line
EmitLineAfterExtension_NoPlaceholder(lines, i, pound_version_index, num_include_directives) ==
  lines[i + 1]

\* the body of the third loop
EmitLineAfterExtension(lines, i, pound_version_index, num_include_directives) ==
  IF i = pound_version_index
    THEN IF num_include_directives > 0 THEN <<"\n">> ELSE lines[i + 1]
    ELSE lines[i + 1]

RECURSIVE EmitAfterExtension(_, _, _, _)
EmitAfterExtension(lines, i, pound_version_index, num_include_directives) ==
  IF i >= Len(lines) THEN <<>>
  ELSE EmitLineAfterExtension(lines, i, pound_version_index, num_include_directives)
       \o EmitAfterExtension(lines, i + 1, pound_version_index, num_include_directives)

\* the function; assert_holds is the condition of its assert()
CleanupPreamble(preprocessed_shader, error_tag, pound_extension, num_include_directives, is_for_next_line) ==
  LET lines == get_fields(preprocessed_shader, "\n", TRUE)
      found == FindDirectives(lines, pound_extension, num_include_directives,
                              0, Len(lines))
  IN [assert_holds |-> found.pound_extension_index < Len(lines),
      pound_extension_index |-> found.pound_extension_index,
      pound_version_index |-> found.pound_version_index,
      output |-> found.output
                 \o EmitBeforeExtension(lines, 0, found.pound_extension_index)
                 \o EmitExtension(pound_extension, error_tag,
                                  num_include_directives, is_for_next_line)
                 \o EmitAfterExtension(lines, found.pound_extension_index + 1,
                                       found.pound_version_index,
                                       num_include_directives)]

(***************************************************************************)
(* Version and profile.                                                    *)
(***************************************************************************)
\* the length of the longest prefix of s made of digits
RECURSIVE DigitPrefixLen(_)
DigitPrefixLen(s) ==
  IF s # <<>> /\ IsDigit(Head(s)) THEN 1 + DigitPrefixLen(Tail(s)) ELSE 0

\* the integer that the leading digits of s write, after acc
RECURSIVE DecimalValue(_, _)
DecimalValue(s, acc) ==
  IF s # <<>> /\ IsDigit(Head(s))
    THEN DecimalValue(Tail(s), acc * 10 + DigitValue(Head(s)))
    ELSE acc

\* ParseVersionProfile of version_profile.h: <integer>[profile-suffix]
ParseVersionProfile(version_profile) ==
  LET n == DigitPrefixLen(version_profile)
      profile_string == substr(version_profile, n)
  IN IF n = 0 THEN [ok |-> FALSE]
     ELSE IF profile_string = <<>>
       THEN [ok |-> TRUE, version |-> DecimalValue(version_profile, 0),
             profile |-> "ENoProfile"]
     ELSE IF profile_string = <<"c","o","r","e">>
       THEN [ok |-> TRUE, version |-> DecimalValue(version_profile, 0),
             profile |-> "ECoreProfile"]
     ELSE IF profile_string = <<"e","s">>
       THEN [ok |-> TRUE, version |-> DecimalValue(version_profile, 0),
             profile |-> "EEsProfile"]
     ELSE IF profile_string = <<"c","o","m","p","a","t","i","b","i","l","i","t","y">>
       THEN [ok |-> TRUE, version |-> DecimalValue(version_profile, 0),
             profile |-> "ECompatibilityProfile"]
     ELSE [ok |-> FALSE]

\* s without its space characters
RECURSIVE WithoutSpaces(_)
WithoutSpaces(s) ==
  IF s = <<>> THEN <<>>
  ELSE (IF Head(s) # " " THEN <<Head(s)>> ELSE <<>>) \o WithoutSpaces(Tail(s))

GetVersionProfileFromSourceCode(preprocessed_shader) ==
  LET pound_version_loc == find(preprocessed_shader, kPoundVersion)
  IN IF pound_version_loc = -1 THEN <<0, "ENoProfile">>
     ELSE LET rest == substr(preprocessed_shader,
                             pound_version_loc + Len(kPoundVersion))
              newline == find(rest, <<"\n">>)
              pound_version == IF newline = -1 THEN rest
                               ELSE SubSeq(rest, 1, newline)
              parsed == ParseVersionProfile(WithoutSpaces(pound_version))
          IN IF ~parsed.ok THEN <<0, "ENoProfile">>
             ELSE <<parsed.version, parsed.profile>>

\* variant: the forced pair not looked at
DeduceVersionProfile_NeverForced(preprocessed_shader) ==
  LET parsed == GetVersionProfileFromSourceCode(preprocessed_shader)
  IN IF parsed = <<0, "ENoProfile">>
       THEN <<default_version_, default_profile_>>
       ELSE parsed

\* variant: the undetected sentinel returned as it is
DeduceVersionProfile_NoFallback(preprocessed_shader) ==
  IF ~force_version_profile_
    THEN GetVersionProfileFromSourceCode(preprocessed_shader)
    ELSE <<default_version_, default_profile_>>

\* Compiler::DeduceVersionProfile, on the current state of the compiler
DeduceVersionProfile(preprocessed_shader) ==
  IF ~force_version_profile_
    THEN LET parsed == GetVersionProfileFromSourceCode(preprocessed_shader)
         IN IF parsed[1] = 0 /\ parsed[2] = "ENoProfile"
              THEN <<default_version_, default_profile_>>
              ELSE parsed
    ELSE <<default_version_, default_profile_>>

(***************************************************************************)
(* Compiler::GetShaderStageFromSourceCode.                                 *)
(***************************************************************************)
kPragmaShaderStageDirective == <<"#","p","r","a","g","m","a"," ","s","h","a","d","e","r","_","s","t","a","g","e">>

kLineDirective == <<"#","l","i","n","e">>

\* MapStageNameToLanguage of shader_stage.h: the fixed lookup
MapStageNameToLanguage(stage_name) ==
  IF stage_name = <<"v","e","r","t","e","x">> THEN "EShLangVertex"
  ELSE IF stage_name = <<"f","r","a","g","m","e","n","t">> THEN "EShLangFragment"
  ELSE IF stage_name = <<"t","e","s","s","c","o","n","t","r","o","l">> THEN "EShLangTessControl"
  ELSE IF stage_name = <<"t","e","s","s","e","v","a","l">> THEN "EShLangTessEvaluation"
  ELSE IF stage_name = <<"g","e","o","m","e","t","r","y">> THEN "EShLangGeometry"
  ELSE IF stage_name = <<"c","o","m","p","u","t","e">> THEN "EShLangCompute"
  ELSE "EShLangCount"

\* 0-based offset in the buffer of the line with 0-based index i
RECURSIVE LineOffset(_, _)
LineOffset(lines, i) ==
  IF i = 0 THEN 0 ELSE LineOffset(lines, i - 1) + Len(lines[i]) + 1

\* number of leading white-space characters of a line
RECURSIVE LeadingWhitespace(_)
LeadingWhitespace(s) ==
  IF s # <<>> /\ Head(s) \in Whitespace THEN 1 + LeadingWhitespace(Tail(s)) ELSE 0

\* the C string that current_line.substr(kLineDirective.size()).data() points
\* to: the buffer from the character after "#line" of line i to its end
LineDirectiveData(buffer, lines, i) ==
  substr(buffer, LineOffset(lines, i) + LeadingWhitespace(lines[i + 1])
                 + Len(kLineDirective))

\* lines 318-319: number + (is_for_next_line ? 0 : 1) in int, converted to the
\* size_t logical_line_no; the set of the values it can give. INT_MAX + 1
\* overflows, which is undefined behaviour: the sum wraps to INT_MIN, or is
\* formed in 64 bits.
LineDirectiveLineNo(number, is_for_next_line) ==
  IF is_for_next_line THEN {to_size_t(number)}
  ELSE IF number < INT_MAX THEN {to_size_t(number + 1)}
  ELSE {to_size_t(INT_MIN), size_t_increment(to_size_t(INT_MAX))}

\* lines 311-322: the values logical_line_no can have for the line after
\* line i
NextLogicalLineNo(buffer, lines, i, is_for_next_line, logical_line_no) ==
  IF starts_with(strip_whitespace(lines[i + 1]), kLineDirective)
    THEN UNION {LineDirectiveLineNo(number, is_for_next_line) :
                  number \in atoi(LineDirectiveData(buffer, lines, i))}
    ELSE {size_t_increment(logical_line_no)}

\* the loop of lines 300-323; scan holds its variables, and line_numbers the
\* value logical_line_no had at each line. The set of the final values of the
\* variables: one, unless an undefined number was computed on the way.
RECURSIVE ScanStageLines(_, _, _, _, _)
ScanStageLines(buffer, lines, is_for_next_line, i, scan) ==
  IF i >= Len(lines) THEN {scan}
  ELSE LET current_line == strip_whitespace(lines[i + 1])
           is_pragma == starts_with(current_line, kPragmaShaderStageDirective)
           is_non_pp == /\ ~is_pragma
                        /\ current_line # <<>>
                        /\ ~starts_with(current_line, <<"#">>)
           stage_value ==
             strip(substr(current_line, Len(kPragmaShaderStageDirective)),
                   {"(", ")"})
       IN UNION
            {ScanStageLines(buffer, lines, is_for_next_line, i + 1,
               [stages |-> IF is_pragma
                             THEN Append(scan.stages,
                                         <<scan.logical_line_no, stage_value>>)
                             ELSE scan.stages,
                first_pragma_shader_stage |->
                  IF is_pragma THEN Min(scan.first_pragma_shader_stage, i + 1)
                  ELSE scan.first_pragma_shader_stage,
                first_non_pp_line |->
                  IF is_non_pp THEN Min(scan.first_non_pp_line, i + 1)
                  ELSE scan.first_non_pp_line,
                logical_line_no |-> next_line_no,
                line_numbers |-> Append(scan.line_numbers, scan.logical_line_no)]) :
             next_line_no \in NextLogicalLineNo(buffer, lines, i, is_for_next_line,
                                                scan.logical_line_no)}

\* variant: the two watermarks compared one line off
PlacementError_OffByOne(filename, stages, first_pragma_shader_stage, first_non_pp_line) ==
  IF first_pragma_shader_stage >= first_non_pp_line - 1
    THEN filename \o <<":">> \o to_string_size_t(stages[1][1])
         \o <<":"," ","e","r","r","o","r",":"," ","'","#","p","r","a","g","m","a","'",":"," ","t","h","e"," ","f","i","r","s","t"," ","'","s","h","a","d","e","r","_","s","t","a","g","e","'"," ","#","p","r","a","g","m","a"," ">>
         \o <<"m","u","s","t"," ","a","p","p","e","a","r"," ","b","e","f","o","r","e"," ","a","n","y"," ","n","o","n","-","p","r","e","p","r","o","c","e","s","s","i","n","g"," ","c","o","d","e","\n">>
    ELSE <<>>

\* lines 331-335
PlacementError(filename, stages, first_pragma_shader_stage, first_non_pp_line) ==
  IF first_pragma_shader_stage > first_non_pp_line
    THEN filename \o <<":">> \o to_string_size_t(stages[1][1])
         \o <<":"," ","e","r","r","o","r",":"," ","'","#","p","r","a","g","m","a","'",":"," ","t","h","e"," ","f","i","r","s","t"," ","'","s","h","a","d","e","r","_","s","t","a","g","e","'"," ","#","p","r","a","g","m","a"," ">>
         \o <<"m","u","s","t"," ","a","p","p","e","a","r"," ","b","e","f","o","r","e"," ","a","n","y"," ","n","o","n","-","p","r","e","p","r","o","c","e","s","s","i","n","g"," ","c","o","d","e","\n">>
    ELSE <<>>

\* lines 337-343
InvalidStageError(filename, stages) ==
  IF MapStageNameToLanguage(stages[1][2]) = "EShLangCount"
    THEN filename \o <<":">> \o to_string_size_t(stages[1][1])
         \o <<":"," ","e","r","r","o","r",":"," ","'","#","p","r","a","g","m","a","'",":"," ","i","n","v","a","l","i","d"," ","s","t","a","g","e"," ","f","o","r"," ","'","s","h","a","d","e","r","_","s","t","a","g","e","'"," ","#","p","r","a","g","m","a",":"," ","'">>
         \o stages[1][2] \o <<"'","\n">>
    ELSE <<>>

\* variant: no conflict reported once the first stage name is invalid
ConflictError_Suppressed(filename, stages, i) ==
  IF stages[i + 1][2] # stages[1][2]
     /\ MapStageNameToLanguage(stages[1][2]) # "EShLangCount"
    THEN filename \o <<":">> \o to_string_size_t(stages[i + 1][1])
         \o <<":"," ","e","r","r","o","r",":"," ","'","#","p","r","a","g","m","a","'",":"," ","c","o","n","f","l","i","c","t","i","n","g"," ","s","t","a","g","e","s"," ","f","o","r"," ">>
         \o <<"'","s","h","a","d","e","r","_","s","t","a","g","e","'"," ","#","p","r","a","g","m","a",":"," ","'">>
         \o stages[i + 1][2] \o <<"'"," ","(","w","a","s"," ","'">> \o stages[1][2]
         \o <<"'"," ","a","t"," ">> \o filename \o <<":">> \o to_string_size_t(stages[1][1])
         \o <<")","\n">>
    ELSE <<>>

\* lines 346-353: the body of the loop, for the 0-based index i
ConflictError(filename, stages, i) ==
  IF stages[i + 1][2] # stages[1][2]
    THEN filename \o <<":">> \o to_string_size_t(stages[i + 1][1])
         \o <<":"," ","e","r","r","o","r",":"," ","'","#","p","r","a","g","m","a","'",":"," ","c","o","n","f","l","i","c","t","i","n","g"," ","s","t","a","g","e","s"," ","f","o","r"," ">>
         \o <<"'","s","h","a","d","e","r","_","s","t","a","g","e","'"," ","#","p","r","a","g","m","a",":"," ","'">>
         \o stages[i + 1][2] \o <<"'"," ","(","w","a","s"," ","'">> \o stages[1][2]
         \o <<"'"," ","a","t"," ">> \o filename \o <<":">> \o to_string_size_t(stages[1][1])
         \o <<")","\n">>
    ELSE <<>>

\* the loop of lines 345-354, from the 0-based index i
RECURSIVE ConflictErrors(_, _, _)
ConflictErrors(filename, stages, i) ==
  IF i >= Len(stages) THEN <<>>
  ELSE ConflictError(filename, stages, i) \o ConflictErrors(filename, stages, i + 1)

\* variant: the stage returned whatever the diagnostics
ResolvedStage_Always(stage, error_message) == stage

\* line 356
ResolvedStage(stage, error_message) ==
  IF error_message = <<>> THEN stage ELSE "EShLangCount"

\* lines 324-357: the pair returned for the final values of the variables of
\* the scan; the record also holds those
StageAndErrors(filename, scan) ==
  IF scan.stages = <<>>
    THEN [stage |-> "EShLangCount", errors |-> <<>>, scan |-> scan]
    ELSE LET error_message ==
               PlacementError(filename, scan.stages,
                              scan.first_pragma_shader_stage,
                              scan.first_non_pp_line)
               \o InvalidStageError(filename, scan.stages)
               \o ConflictErrors(filename, scan.stages, 1)
         IN [stage |-> ResolvedStage(MapStageNameToLanguage(scan.stages[1][2]),
                                     error_message),
             errors |-> error_message, scan |-> scan]

\* the function, on the current state of the compiler: the set of the results
\* it can give
GetShaderStageFromSourceCode(filename, preprocessed_shader) ==
  LET version_profile == DeduceVersionProfile(preprocessed_shader)
      is_for_next_line ==
        LineDirectiveIsForNextLine(version_profile[1], version_profile[2])
      lines == get_fields(preprocessed_shader, "\n", FALSE)
  IN {StageAndErrors(filename, scan) :
        scan \in ScanStageLines(preprocessed_shader, lines, is_for_next_line, 0,
                   [stages |-> <<>>,
                    first_pragma_shader_stage |-> Len(lines) + 1,
                    first_non_pp_line |-> Len(lines) + 1,
                    logical_line_no |-> to_size_t(1),
                    line_numbers |-> <<>>])}

(***************************************************************************)
(* Inputs.                                                                 *)
(***************************************************************************)
\* sequences of at most n elements of S
RECURSIVE SeqsUpTo(_, _)
SeqsUpTo(S, n) ==
  IF n = 0 THEN {<<>>}
  ELSE LET shorter == SeqsUpTo(S, n - 1)
       IN shorter \cup {Append(q, x) : q \in shorter, x \in S}

\* the text whose lines are ls; the last line ends in a newline iff terminated
RECURSIVE JoinLines(_, _)
JoinLines(ls, terminated) ==
  IF ls = <<>> THEN <<>>
  ELSE IF Len(ls) = 1 THEN Head(ls) \o (IF terminated THEN <<"\n">> ELSE <<>>)
  ELSE Head(ls) \o <<"\n">> \o JoinLines(Tail(ls), terminated)

ErrorTag == <<"a",".","g","l","s","l">>

PreambleLinePool ==
  { <<>>, <<" ">>,
    <<"#","e","x","t","e","n","s","i","o","n"," ","G","L","_","G","O","O","G","L","E","_","i","n","c","l","u","d","e","_","d","i","r","e","c","t","i","v","e"," ",":"," ","e","n","a","b","l","e">>,
    <<"#","v","e","r","s","i","o","n"," ","1","5","0">>, <<"#","v","e","r","s","i","o","n"," ","3","3","0">>,
    <<"i","n","t"," ","x",";">> }

PreambleTexts ==
  {JoinLines(ls, t) : ls \in SeqsUpTo(PreambleLinePool, MaxPreambleLines), t \in BOOLEAN}

NoCall == [fn |-> "none"]

NoCompile == [pc |-> "idle"]

NotReturned == [status |-> "not returned"]

InitCompiler ==
  /\ default_version_ = 110
  /\ default_profile_ = "ENoProfile"
  /\ force_version_profile_ = FALSE
  /\ preprocess_only_ = FALSE
  /\ last_forced = <<>>
  /\ compile = NoCompile
  /\ calls = <<>>

(***************************************************************************)
(* CleanupPreamble applied to every text of PreambleTexts.                 *)
(***************************************************************************)
InitCleanup ==
  /\ InitCompiler
  /\ NDEBUG \in BOOLEAN
  /\ call \in {[fn |-> "CleanupPreamble", preprocessed_shader |-> t,
                error_tag |-> ErrorTag, pound_extension |-> kPoundExtension,
                num_include_directives |-> n, is_for_next_line |-> b] :
               t \in PreambleTexts, n \in 0..1, b \in BOOLEAN}
  /\ ret = NotReturned

\* a failed assert() aborts the program unless the build defines NDEBUG
CallCleanupPreamble ==
  /\ call.fn = "CleanupPreamble"
  /\ ret = NotReturned
  /\ LET r == CleanupPreamble(call.preprocessed_shader, call.error_tag,
                              call.pound_extension, call.num_include_directives,
                              call.is_for_next_line)
     IN ret' = IF r.assert_holds \/ NDEBUG
                 THEN [status |-> "returned", assert_holds |-> r.assert_holds,
                       pound_extension_index |-> r.pound_extension_index,
                       pound_version_index |-> r.pound_version_index,
                       output |-> r.output]
                 ELSE [status |-> "aborted", assert_holds |-> FALSE,
                       pound_extension_index |-> r.pound_extension_index,
                       pound_version_index |-> r.pound_version_index]
  /\ UNCHANGED <<default_version_, default_profile_, force_version_profile_,
                 last_forced, preprocess_only_, NDEBUG, call, compile, calls>>

NextCleanup == CallCleanupPreamble

SpecCleanup == InitCleanup /\ [][NextCleanup]_vars

(***************************************************************************)
(* Compiler::SetForcedVersionProfile.                                      *)
(***************************************************************************)
ForcedPairs == {<<150, "ECoreProfile">>, <<310, "EEsProfile">>}

SetForcedVersionProfile(version, profile) ==
  /\ default_version_' = version
  /\ default_profile_' = profile
  /\ force_version_profile_' = TRUE
  /\ last_forced' = <<version, profile>>
  /\ UNCHANGED <<preprocess_only_, NDEBUG, call, ret, compile, calls>>

(***************************************************************************)
(* GetShaderStageFromSourceCode applied to every text of StageTexts, in    *)
(* every state of the compiler that SetForcedVersionProfile leads to.      *)
(***************************************************************************)
StageLinePool ==
  { <<"#","p","r","a","g","m","a"," ","s","h","a","d","e","r","_","s","t","a","g","e","(","v","e","r","t","e","x",")">>, <<"#","p","r","a","g","m","a"," ","s","h","a","d","e","r","_","s","t","a","g","e","(","f","r","a","g","m","e","n","t",")">>,
    <<"#","p","r","a","g","m","a"," ","s","h","a","d","e","r","_","s","t","a","g","e","(","f","o","o",")">>,
    <<"i","n","t"," ","x",";">>, <<" ">>,
    <<"#","l","i","n","e"," ","5","0">>, <<"#","l","i","n","e"," ","2","1","4","7","4","8","3","6","4","7">>,
    <<"#","v","e","r","s","i","o","n"," ","3","3","0">> }

StageTexts == {JoinLines(ls, TRUE) : ls \in SeqsUpTo(StageLinePool, MaxStageLines)}

InitStage ==
  /\ InitCompiler
  /\ NDEBUG = FALSE
  /\ call \in {[fn |-> "GetShaderStageFromSourceCode", filename |-> ErrorTag,
                preprocessed_shader |-> text] : text \in StageTexts}
  /\ ret = NotReturned

\* the compiler is configured before the function is applied
ConfigureBeforeScan ==
  /\ call.fn = "GetShaderStageFromSourceCode"
  /\ ret = NotReturned
  /\ \E pair \in ForcedPairs : SetForcedVersionProfile(pair[1], pair[2])

CallGetShaderStageFromSourceCode ==
  /\ call.fn = "GetShaderStageFromSourceCode"
  /\ ret = NotReturned
  /\ \E returned \in GetShaderStageFromSourceCode(call.filename,
                                                  call.preprocessed_shader) :
       ret' = [status |-> "returned"] @@ returned
  /\ UNCHANGED <<default_version_, default_profile_, force_version_profile_,
                 last_forced, preprocess_only_, NDEBUG, call, compile, calls>>

NextStage ==
  \/ ConfigureBeforeScan
  \/ CallGetShaderStageFromSourceCode

SpecStage == InitStage /\ [][NextStage]_vars

(***************************************************************************)
(* The compiler object: its setters, DeduceVersionProfile and Compile.     *)
(* Compile advances in steps, one per component it invokes; the setters    *)
(* and DeduceVersionProfile run between two calls of Compile.              *)
(***************************************************************************)
Stages == {"EShLangVertex", "EShLangFragment", "EShLangCount"}

\* what PreprocessShader can give back for the text of the preamble followed
\* by a source: the blank lines of the macro definitions, the injected
\* directive, then the lines of the source (lines 218-221)
SourceLinePool ==
  { <<"#","p","r","a","g","m","a"," ","s","h","a","d","e","r","_","s","t","a","g","e","(","v","e","r","t","e","x",")">>, <<"#","p","r","a","g","m","a"," ","s","h","a","d","e","r","_","s","t","a","g","e","(","f","o","o",")">>,
    <<"#","v","e","r","s","i","o","n"," ","3","3","0">>, <<"i","n","t"," ","x",";">> }

PreprocessedTexts ==
  {blank \o kPoundExtension \o JoinLines(ls, TRUE) :
     blank \in {<<>>, <<"\n">>}, ls \in SeqsUpTo(SourceLinePool, MaxSourceLines)}

VersionLinePool ==
  { <<"#","v","e","r","s","i","o","n"," ","3","3","0">>, <<"#","v","e","r","s","i","o","n"," ","3","1","0"," ","e","s">>, <<"#","v","e","r","s","i","o","n"," ","1","5","0"," ","c","o","r","e">>,
    <<"#","v","e","r","s","i","o","n"," ","4","x","0">>, <<"i","n","t"," ","x",";">>, <<"/","/"," ","#","v","e","r","s","i","o","n"," ","4","5","0">> }

VersionTexts ==
  {JoinLines(ls, t) : ls \in SeqsUpTo(VersionLinePool, MaxVersionLines), t \in BOOLEAN}

Idle == compile.pc \in {"idle", "done"}

Init ==
  /\ InitCompiler
  /\ NDEBUG \in BOOLEAN
  /\ call = NoCall
  /\ ret = NotReturned

ForceVersionProfile ==
  /\ Idle
  /\ \E pair \in ForcedPairs : SetForcedVersionProfile(pair[1], pair[2])

SetPreprocessingOnlyMode ==
  /\ Idle
  /\ preprocess_only_' = TRUE
  /\ UNCHANGED <<default_version_, default_profile_, force_version_profile_,
                 NDEBUG, last_forced, call, ret, compile, calls>>

\* DeduceVersionProfile applied to a text; the call remembers the pair that
\* was forced last when it was made
CallDeduceVersionProfile ==
  /\ Idle
  /\ \E text \in VersionTexts :
       /\ call' = [fn |-> "DeduceVersionProfile", preprocessed_shader |-> text,
                   last_forced |-> last_forced]
       /\ ret' = [status |-> "returned", value |-> DeduceVersionProfile(text)]
  /\ compile' = NoCompile
  /\ calls' = <<>>
  /\ UNCHANGED <<default_version_, default_profile_, force_version_profile_,
                 preprocess_only_, NDEBUG, last_forced>>

CompilerUnchanged ==
  UNCHANGED <<default_version_, default_profile_, force_version_profile_,
              preprocess_only_, NDEBUG, last_forced, call, ret>>

\* lines 67-80: entry, and the choice between preprocessing and parsing
CompileBegin ==
  /\ Idle
  /\ \E forced_shader_stage \in Stages :
       compile' = [pc |-> IF preprocess_only_ \/ forced_shader_stage = "EShLangCount"
                            THEN "preprocess" ELSE "parse",
                   forced_shader_stage |-> forced_shader_stage,
                   used_shader_stage |-> forced_shader_stage,
                   preprocess_only |-> preprocess_only_,
                   preprocessed_shader |-> <<>>,
                   num_include_directives |-> 0,
                   preprocessed |-> "no",
                   scanned |-> "no",
                   callback |-> "no",
                   errors |-> <<>>,
                   error_stream |-> <<>>,
                   output_stream |-> <<>>,
                   result |-> "none"]
  /\ calls' = <<>>
  /\ call' = NoCall
  /\ ret' = NotReturned
  /\ UNCHANGED <<default_version_, default_profile_, force_version_profile_,
                 preprocess_only_, NDEBUG, last_forced>>

\* lines 81-90: PreprocessShader and PrintFilteredErrors, both external
CompilePreprocess ==
  /\ compile.pc = "preprocess"
  /\ calls' = Append(calls, "PreprocessShader")
  /\ \/ \E text \in PreprocessedTexts, n \in 0..1 :
          compile' = [compile EXCEPT !.pc = "cleanup",
                                     !.preprocessed = "ok",
                                     !.preprocessed_shader = text,
                                     !.num_include_directives = n]
     \/ compile' = [compile EXCEPT !.pc = "done", !.preprocessed = "failed",
                                   !.result = FALSE]
  /\ CompilerUnchanged

\* lines 94-101: the convention is deduced and the preamble cleaned up
CompileCleanup ==
  /\ compile.pc = "cleanup"
  /\ calls' = Append(calls, "CleanupPreamble")
  /\ LET version_profile == DeduceVersionProfile(compile.preprocessed_shader)
         is_for_next_line ==
           LineDirectiveIsForNextLine(version_profile[1], version_profile[2])
         cleaned == CleanupPreamble(compile.preprocessed_shader, ErrorTag,
                                    kPoundExtension,
                                    compile.num_include_directives,
                                    is_for_next_line)
     IN compile' =
          IF ~cleaned.assert_holds /\ ~NDEBUG
            THEN [compile EXCEPT !.pc = "aborted"]
            ELSE [compile EXCEPT
                    !.preprocessed_shader = cleaned.output,
                    !.pc = IF preprocess_only_ THEN "write_preprocessed"
                           ELSE IF compile.used_shader_stage = "EShLangCount"
                             THEN "scan"
                           ELSE "parse"]
  /\ CompilerUnchanged

\* lines 103-105: preprocess-only mode writes the text and returns
CompileWritePreprocessed ==
  /\ compile.pc = "write_preprocessed"
  /\ calls' = Append(calls, "WriteFile")
  /\ \E written \in BOOLEAN :
       compile' = [compile EXCEPT
                     !.pc = "done", !.result = written,
                     !.output_stream = compile.preprocessed_shader]
  /\ CompilerUnchanged

\* variant: the diagnostics of the scanner do not end the compilation
AfterScan_IgnoreErrors(scanned) ==
  IF scanned.stage = "EShLangCount"
    THEN [compile EXCEPT !.pc = "callback",
                         !.used_shader_stage = scanned.stage,
                         !.scanned = IF scanned.errors # <<>>
                                       THEN "errors" ELSE "undetected",
                         !.errors = scanned.errors]
  ELSE [compile EXCEPT !.pc = "parse",
                       !.used_shader_stage = scanned.stage,
                       !.scanned = "stage"]

\* lines 108-119, up to the call of stage_callback: what Compile does with
\* the pair the scanner returned
AfterScan(scanned) ==
  IF scanned.errors # <<>>
    THEN [compile EXCEPT !.pc = "done", !.result = FALSE,
                         !.used_shader_stage = scanned.stage,
                         !.scanned = "errors",
                         !.errors = scanned.errors,
                         !.error_stream = compile.error_stream \o scanned.errors]
  ELSE IF scanned.stage = "EShLangCount"
    THEN [compile EXCEPT !.pc = "callback",
                         !.used_shader_stage = scanned.stage,
                         !.scanned = "undetected"]
  ELSE [compile EXCEPT !.pc = "parse",
                       !.used_shader_stage = scanned.stage,
                       !.scanned = "stage"]

\* lines 106-109: the stage is looked for in the cleaned-up text
CompileScan ==
  /\ compile.pc = "scan"
  /\ calls' = Append(calls, "GetShaderStageFromSourceCode")
  /\ \E scanned \in GetShaderStageFromSourceCode(ErrorTag,
                                                 compile.preprocessed_shader) :
       compile' = AfterScan(scanned)
  /\ CompilerUnchanged

\* what the caller's stage_callback can write to the error stream it is
\* handed
CallbackTexts == {<<>>, <<"a",".","g","l","s","l",":"," ","e","r","r","o","r",":"," ","n","o"," ","s","t","a","g","e","\n">>}

\* lines 114-118: the caller's callback, given the error stream and the tag,
\* writes what it wants to the stream and chooses the stage
CompileStageCallback ==
  /\ compile.pc = "callback"
  /\ calls' = Append(calls, "stage_callback")
  /\ \E stage \in Stages, written \in CallbackTexts :
       compile' = IF stage = "EShLangCount"
                    THEN [compile EXCEPT !.pc = "done", !.result = FALSE,
                                         !.used_shader_stage = stage,
                                         !.callback = "undetected",
                                         !.error_stream = compile.error_stream \o written]
                    ELSE [compile EXCEPT !.pc = "parse",
                                         !.used_shader_stage = stage,
                                         !.callback = "stage",
                                         !.error_stream = compile.error_stream \o written]
  /\ CompilerUnchanged

\* lines 123-138: glslang parses the source
CompileParse ==
  /\ compile.pc = "parse"
  /\ calls' = Append(calls, "parse")
  /\ \E success \in BOOLEAN :
       compile' = IF success THEN [compile EXCEPT !.pc = "link"]
                  ELSE [compile EXCEPT !.pc = "done", !.result = FALSE]
  /\ CompilerUnchanged

\* lines 140-146: glslang links the program
CompileLink ==
  /\ compile.pc = "link"
  /\ calls' = Append(calls, "link")
  /\ \E success \in BOOLEAN :
       compile' = IF success THEN [compile EXCEPT !.pc = "generate"]
                  ELSE [compile EXCEPT !.pc = "done", !.result = FALSE]
  /\ CompilerUnchanged

\* lines 148-162: code generation, and the write of the binary or of its
\* disassembly
CompileGenerate ==
  /\ compile.pc = "generate"
  /\ calls' = calls \o <<"GlslangToSpv", "WriteFile">>
  /\ \E written \in BOOLEAN :
       compile' = [compile EXCEPT !.pc = "done", !.result = written,
                                  !.output_stream = <<"s","p","i","r","v">>]
  /\ CompilerUnchanged

Next ==
  \/ ForceVersionProfile
  \/ SetPreprocessingOnlyMode
  \/ CallDeduceVersionProfile
  \/ CompileBegin
  \/ CompilePreprocess
  \/ CompileCleanup
  \/ CompileWritePreprocessed
  \/ CompileScan
  \/ CompileStageCallback
  \/ CompileParse
  \/ CompileLink
  \/ CompileGenerate

Spec == Init /\ [][Next]_vars

(***************************************************************************)
(* Properties of CleanupPreamble (checked under SpecCleanup).              *)
(***************************************************************************)
CleanupCalled == call.fn = "CleanupPreamble" /\ ret # NotReturned

CleanupReturned == call.fn = "CleanupPreamble" /\ ret.status = "returned"

\* the input's lines, each with its newline, and the 1-based positions of the
\* lines equal to the injected directive and of those starting with #version
InLines == get_fields(call.preprocessed_shader, "\n", TRUE)

ExtensionLines == {i \in 1..Len(InLines) : InLines[i] = call.pound_extension}

VersionLines == {i \in 1..Len(InLines) : starts_with(InLines[i], kPoundVersion)}

FirstExtension == SetMin(ExtensionLines)

\* the #version lines after the first line equal to the injected directive
LaterVersionLines == {v \in VersionLines : v > FirstExtension}

\* the precondition the code documents at lines 248-249
ExtensionBeforeVersion ==
  ExtensionLines # {} /\ \A v \in VersionLines : v > FirstExtension

OutLines == get_fields(ret.output, "\n", TRUE)

ends_with(s, suffix) ==
  Len(s) >= Len(suffix) /\ SubSeq(s, Len(s) - Len(suffix) + 1, Len(s)) = suffix

\* the non-blank ones of lines from..to
RECURSIVE NonBlank(_, _, _)
NonBlank(ls, from, to) ==
  IF from > to THEN <<>>
  ELSE (IF \A k \in 1..Len(ls[from]) : ls[from][k] \in Whitespace
          THEN <<>> ELSE ls[from])
       \o NonBlank(ls, from + 1, to)

\* C1 as stated: with includes, a directive line and a later #version line,
\* the output's first line is that #version line, its text is emitted nowhere
\* else, and "\n" stands where it was.
C1_AsStated ==
  (CleanupCalled /\ call.num_include_directives > 0
   /\ ExtensionLines # {} /\ LaterVersionLines # {})
  => LET v == SetMin(LaterVersionLines)
     IN /\ ret.status = "returned"
        /\ OutLines # <<>> /\ OutLines[1] = InLines[v]
        /\ \A k \in 2..Len(OutLines) : OutLines[k] # InLines[v]
        /\ ends_with(ret.output,
                     Concat(SubSeq(InLines, FirstExtension + 1, v - 1))
                     \o <<"\n">>
                     \o Concat(SubSeq(InLines, v + 1, Len(InLines))))

\* C1 (amended): with includes, when the first directive line precedes every
\* #version line and a #version line follows it, the output is that #version
\* line, the non-blank lines before the directive, the directive with its
\* #line line, then the lines after the directive with "\n" in place of the
\* #version line; the #version line is a whole first line of the output when
\* it ends in a newline, and no other output line is a line starting with
\* #version unless the input has a further such line.
C1_VersionFirst ==
  (CleanupCalled /\ call.num_include_directives > 0
   /\ ExtensionBeforeVersion /\ VersionLines # {})
  => LET v == SetMin(VersionLines)
         e == FirstExtension
     IN /\ ret.status = "returned"
        /\ ret.output =
             InLines[v]
             \o NonBlank(InLines, 1, e - 1)
             \o call.pound_extension
             \o GetLineDirective(IF call.is_for_next_line THEN 1 ELSE 0,
                                 call.error_tag)
             \o Concat(SubSeq(InLines, e + 1, v - 1))
             \o <<"\n">>
             \o Concat(SubSeq(InLines, v + 1, Len(InLines)))
        /\ (ends_with(InLines[v], <<"\n">>) => OutLines[1] = InLines[v])
        /\ Cardinality({k \in 2..Len(OutLines) :
                          starts_with(OutLines[k], kPoundVersion)})
             = IF ends_with(InLines[v], <<"\n">>)
                 THEN Cardinality(VersionLines) - 1 ELSE 0

C1_Witness ==
  /\ CleanupReturned /\ call.num_include_directives > 0
  /\ ExtensionBeforeVersion /\ VersionLines # {}
  /\ FirstExtension > 1
  /\ OutLines[1] = InLines[SetMin(VersionLines)]

\* C2 as stated: without includes and with exactly one directive line, the
\* output is the input less that line and the blank lines before it.
C2_AsStated ==
  (CleanupCalled /\ call.num_include_directives = 0
   /\ Cardinality(ExtensionLines) = 1)
  => /\ ret.status = "returned"
     /\ ret.output = NonBlank(InLines, 1, FirstExtension - 1)
                     \o Concat(SubSeq(InLines, FirstExtension + 1, Len(InLines)))

\* C2 (amended): without includes, with exactly one directive line and no
\* #version line before it, the output is the input less that line and the
\* blank lines before it; it holds no directive line, and no #line line the
\* input did not have.
C2_PreambleRemoved ==
  (CleanupCalled /\ call.num_include_directives = 0
   /\ Cardinality(ExtensionLines) = 1 /\ ExtensionBeforeVersion)
  => /\ ret.status = "returned"
     /\ ret.output = NonBlank(InLines, 1, FirstExtension - 1)
                     \o Concat(SubSeq(InLines, FirstExtension + 1, Len(InLines)))
     /\ \A k \in 1..Len(OutLines) :
          /\ OutLines[k] # call.pound_extension
          /\ ~starts_with(OutLines[k], <<"#","l","i","n","e">>)
     /\ Cardinality({k \in 1..Len(OutLines) : starts_with(OutLines[k], kPoundVersion)})
          = Cardinality(VersionLines)

C2_Witness ==
  /\ CleanupReturned /\ call.num_include_directives = 0
  /\ Cardinality(ExtensionLines) = 1 /\ ExtensionBeforeVersion
  /\ FirstExtension > 1 /\ VersionLines # {}
  /\ Len(OutLines) = Len(InLines) - 2

\* C3 as stated: with includes, the output holds the directive followed by
\* #line 1 "<tag>" under the next-line convention and #line 2 "<tag>" under
\* the legacy one.
C3_AsStated ==
  (CleanupReturned /\ call.num_include_directives > 0)
  => find(ret.output,
          call.pound_extension
          \o <<"#","l","i","n","e"," ">> \o (IF call.is_for_next_line THEN <<"1">> ELSE <<"2">>)
          \o <<" ","\"">> \o call.error_tag \o <<"\"","\n">>) # -1

\* C3 (amended): with includes, whenever the function returns, the output
\* holds the directive followed by #line 1 "<tag>" under the next-line
\* convention and #line 0 "<tag>" under the legacy one.
C3_LineDirective ==
  (CleanupReturned /\ call.num_include_directives > 0)
  => find(ret.output,
          call.pound_extension
          \o <<"#","l","i","n","e"," ">> \o (IF call.is_for_next_line THEN <<"1">> ELSE <<"0">>)
          \o <<" ","\"">> \o call.error_tag \o <<"\"","\n">>) # -1

C3_Witness ==
  /\ CleanupReturned /\ call.num_include_directives > 0
  /\ ~call.is_for_next_line /\ ret.assert_holds
  /\ find(ret.output, call.pound_extension \o <<"#","l","i","n","e"," ","0"," ","\"","a",".","g","l","s","l","\"","\n">>) # -1

\* C10 as stated: whenever some line equals the directive, the assertion
\* holds and the index is that of the first such line; the assertion fails
\* only when no line equals the directive.
C10_AsStated ==
  CleanupCalled
  => /\ ExtensionLines # {}
          => /\ ret.assert_holds
             /\ ret.pound_extension_index = FirstExtension - 1
     /\ ~ret.assert_holds => ExtensionLines = {}

\* C10 (amended): the assertion holds exactly when some line equals the
\* directive and no #version line precedes the first such line, and then the
\* index found is that of the first such line.
C10_ExtensionFound ==
  CleanupCalled
  => /\ ret.assert_holds <=> ExtensionBeforeVersion
     /\ ExtensionBeforeVersion
          => ret.pound_extension_index = FirstExtension - 1

C10_Witness ==
  /\ CleanupReturned /\ ret.assert_holds
  /\ Cardinality(ExtensionLines) >= 2 /\ VersionLines # {}
  /\ ret.pound_extension_index = FirstExtension - 1

(***************************************************************************)
(* Properties of GetShaderStageFromSourceCode (checked under SpecStage).   *)
(***************************************************************************)
StageReturned ==
  call.fn = "GetShaderStageFromSourceCode" /\ ret.status = "returned"

\* the physical lines of the input, 1-based, without their newlines
ScanLines == get_fields(call.preprocessed_shader, "\n", FALSE)

Stripped(i) == strip_whitespace(ScanLines[i])

PragmaLines ==
  {i \in 1..Len(ScanLines) : starts_with(Stripped(i), <<"#","p","r","a","g","m","a"," ","s","h","a","d","e","r","_","s","t","a","g","e">>)}

\* the lines that are non-empty and do not start with #
CodeLines ==
  {i \in 1..Len(ScanLines) : Stripped(i) # <<>> /\ Head(Stripped(i)) # "#"}

LineDirectives ==
  {i \in 1..Len(ScanLines) : starts_with(Stripped(i), <<"#","l","i","n","e">>)}

\* the stage name between the parentheses of pragma line i
StageName(i) ==
  LET open == find(Stripped(i), <<"(">>)
      close == find(Stripped(i), <<")">>)
  IN SubSeq(Stripped(i), open + 2, close)

\* N of the #line N directive at line i, N in the range of int
DirectiveNumber(i) ==
  CHOOSE number \in atoi(substr(Stripped(i), Len(<<"#","l","i","n","e">>))) : TRUE

\* the size_t n + k
RECURSIVE Plus(_, _)
Plus(n, k) == IF k = 0 THEN n ELSE Plus(size_t_increment(n), k - 1)

\* the value the line counter had at physical line i
CounterAt(i) == ret.scan.line_numbers[i]

\* the pair the compiler deduces for the input: the last forced pair, else
\* the one of the #version directive, else the default of the constructor
DeducedPair ==
  IF last_forced # <<>> THEN last_forced
  ELSE IF GetVersionProfileFromSourceCode(call.preprocessed_shader)
          = <<0, "ENoProfile">>
    THEN <<110, "ENoProfile">>
    ELSE GetVersionProfileFromSourceCode(call.preprocessed_shader)

NextLineConvention == DeducedPair[2] = "EEsProfile" \/ DeducedPair[1] >= 330

\* the logical number of physical line i: lines are counted from 1, and from
\* the last #line N before line i when there is one
LogicalLine(i) ==
  LET before == {j \in LineDirectives : j < i}
  IN IF before = {} THEN to_size_t(i)
     ELSE LET j == SetMax(before)
          IN Plus(to_size_t(DirectiveNumber(j)),
                  (IF NextLineConvention THEN 0 ELSE 1) + (i - j - 1))

\* the k-th smallest element of a set of numbers
RECURSIVE Nth(_, _)
Nth(S, k) == IF k = 1 THEN SetMin(S) ELSE Nth(S \ {SetMin(S)}, k - 1)

Diagnostics == get_fields(ret.errors, "\n", TRUE)

PlacementText ==
  <<":"," ","e","r","r","o","r",":"," ","'","#","p","r","a","g","m","a","'",":"," ","t","h","e"," ","f","i","r","s","t"," ","'","s","h","a","d","e","r","_","s","t","a","g","e","'"," ","#","p","r","a","g","m","a"," ","m","u","s","t"," ","a","p","p","e","a","r"," ","b","e","f","o","r","e"," ","a","n","y"," ","n","o","n","-","p","r","e","p","r","o","c","e","s","s","i","n","g"," ","c","o","d","e","\n">>

PlacementDiagnostics ==
  {k \in 1..Len(Diagnostics) : ends_with(Diagnostics[k], PlacementText)}

InvalidDiagnostics ==
  {k \in 1..Len(Diagnostics) :
     find(Diagnostics[k], <<":"," ","e","r","r","o","r",":"," ","'","#","p","r","a","g","m","a","'",":"," ","i","n","v","a","l","i","d"," ","s","t","a","g","e"," ","f","o","r"," ","'","s","h","a","d","e","r","_","s","t","a","g","e","'"," ","#","p","r","a","g","m","a",":"," ","'">>) # -1}

ConflictDiagnostics ==
  {k \in 1..Len(Diagnostics) :
     find(Diagnostics[k], <<":"," ","e","r","r","o","r",":"," ","'","#","p","r","a","g","m","a","'",":"," ","c","o","n","f","l","i","c","t","i","n","g"," ","s","t","a","g","e","s"," ","f","o","r"," ","'","s","h","a","d","e","r","_","s","t","a","g","e","'"," ","#","p","r","a","g","m","a",":"," ","'">>) # -1}

\* the three checks, stated on the input
Misplaced ==
  PragmaLines # {} /\ CodeLines # {} /\ SetMin(PragmaLines) > SetMin(CodeLines)

FirstNameUnknown ==
  PragmaLines # {}
  /\ StageName(SetMin(PragmaLines))
       \notin {<<"v","e","r","t","e","x">>, <<"f","r","a","g","m","e","n","t">>, <<"t","e","s","s","c","o","n","t","r","o","l">>, <<"t","e","s","s","e","v","a","l">>,
               <<"g","e","o","m","e","t","r","y">>, <<"c","o","m","p","u","t","e">>}

Conflicting ==
  {p \in PragmaLines : StageName(p) # StageName(SetMin(PragmaLines))}

Count(b) == IF b THEN 1 ELSE 0

\* C4: a real stage comes only with an empty diagnostic text; with a pragma
\* found the stage is real exactly when the text is empty; and each of the
\* three checks that fires adds its own diagnostic.
C4_AllOrNothing ==
  StageReturned
  => /\ ret.stage # "EShLangCount" => ret.errors = <<>>
     /\ PragmaLines # {} => (ret.stage # "EShLangCount" <=> ret.errors = <<>>)
     /\ PragmaLines = {} => ret.errors = <<>>
     /\ Cardinality(PlacementDiagnostics) = Count(Misplaced)
     /\ Cardinality(InvalidDiagnostics) = Count(FirstNameUnknown)
     /\ Cardinality(ConflictDiagnostics) = Cardinality(Conflicting)
     /\ Len(Diagnostics) = Count(Misplaced) + Count(FirstNameUnknown)
                           + Cardinality(Conflicting)

C4_Witness ==
  /\ StageReturned
  /\ Misplaced /\ FirstNameUnknown /\ Conflicting # {}
  /\ Len(Diagnostics) = 3 /\ ret.stage = "EShLangCount"

\* C5 as stated: two stage pragmas with different names give the sentinel
\* and exactly two diagnostics.
C5_AsStated ==
  (StageReturned /\ Cardinality(PragmaLines) = 2 /\ Conflicting # {})
  => ret.stage = "EShLangCount" /\ Len(Diagnostics) = 2

\* C5 (amended): two stage pragmas with different names give the sentinel
\* and exactly one conflict diagnostic, which cites the value of the line
\* counter at the second pragma, both names and the value of the counter at
\* the first pragma; one more diagnostic is produced
\* when the first name is unrecognized and one more when the first pragma is
\* misplaced.
C5_Conflict ==
  (StageReturned /\ Cardinality(PragmaLines) = 2 /\ Conflicting # {})
  => LET first == SetMin(PragmaLines)
         second == SetMax(PragmaLines)
     IN /\ ret.stage = "EShLangCount"
        /\ Cardinality(ConflictDiagnostics) = 1
        /\ Len(Diagnostics) = 1 + Count(FirstNameUnknown) + Count(Misplaced)
        /\ Diagnostics[Len(Diagnostics)] =
             call.filename \o <<":">> \o to_string_size_t(CounterAt(second))
             \o <<":"," ","e","r","r","o","r",":"," ","'","#","p","r","a","g","m","a","'",":"," ","c","o","n","f","l","i","c","t","i","n","g"," ","s","t","a","g","e","s"," ","f","o","r"," ","'","s","h","a","d","e","r","_","s","t","a","g","e","'"," ","#","p","r","a","g","m","a",":"," ","'">>
             \o StageName(second) \o <<"'"," ","(","w","a","s"," ","'">> \o StageName(first)
             \o <<"'"," ","a","t"," ">> \o call.filename \o <<":">>
             \o to_string_size_t(CounterAt(first)) \o <<")","\n">>

C5_Witness ==
  /\ StageReturned /\ Cardinality(PragmaLines) = 2 /\ Conflicting # {}
  /\ FirstNameUnknown /\ ~Misplaced
  /\ Len(Diagnostics) = 2 /\ ret.stage = "EShLangCount"

\* C6: a placement diagnostic is produced exactly when there is a stage
\* pragma and the first pragma line comes after the first line that is
\* non-empty and does not start with #; it cites the logical line of the
\* first pragma (the value of the line counter at that line), and the
\* sentinel is returned.
C6_Placement ==
  StageReturned
  => /\ PlacementDiagnostics # {} <=> Misplaced
     /\ Misplaced
          => /\ Diagnostics[1] =
                  call.filename \o <<":">>
                  \o to_string_size_t(CounterAt(SetMin(PragmaLines)))
                  \o PlacementText
             /\ PlacementDiagnostics = {1}
             /\ ret.stage = "EShLangCount"

C6_Witness ==
  /\ StageReturned /\ Misplaced
  /\ \E j \in LineDirectives : j < SetMin(PragmaLines)
  /\ PlacementDiagnostics = {1}
  /\ CounterAt(SetMin(PragmaLines)) # to_size_t(SetMin(PragmaLines))

\* C7 as stated: the logical line counter is 1 at the first line and grows
\* by 1 per line, except that the line after #line N has number N under the
\* next-line convention (profile ES or version >= 330) and N+1 under the
\* legacy one; each stage pragma is recorded with the counter's value at its
\* line.
C7_AsStated ==
  StageReturned
  => /\ Len(ret.scan.line_numbers) = Len(ScanLines)
     /\ \A i \in 1..Len(ScanLines) :
          /\ CounterAt(i) = LogicalLine(i)
          /\ i = 1 => CounterAt(i) = to_size_t(1)
          /\ (i > 1 /\ i - 1 \notin LineDirectives)
               => CounterAt(i) = Plus(CounterAt(i - 1), 1)
          /\ (i > 1 /\ i - 1 \in LineDirectives)
               => CounterAt(i) =
                    Plus(to_size_t(DirectiveNumber(i - 1)),
                         IF NextLineConvention THEN 0 ELSE 1)
     /\ Len(ret.scan.stages) = Cardinality(PragmaLines)
     /\ \A k \in 1..Cardinality(PragmaLines) :
          ret.scan.stages[k] = <<CounterAt(Nth(PragmaLines, k)),
                                 StageName(Nth(PragmaLines, k))>>

\* the numbering of C7 where the code defines it: every #line N of the input
\* has N + 1 in the range of int, or the convention is the next-line one
C7_InRange ==
  (StageReturned
   /\ (NextLineConvention \/ \A j \in LineDirectives : DirectiveNumber(j) < INT_MAX))
  => C7_AsStated

C7_InRangeWitness ==
  /\ StageReturned /\ ~NextLineConvention
  /\ \E p \in PragmaLines :
       /\ p - 1 \in LineDirectives
       /\ ret.scan.stages[1] = <<to_size_t(51), StageName(p)>>
  /\ ret.stage # "EShLangCount"

(***************************************************************************)
(* Properties of the compiler object (checked under Spec).                 *)
(***************************************************************************)
\* C8: once a pair was forced, DeduceVersionProfile returns the pair forced
\* last whatever the source; before that it returns the pair of the source's
\* #version directive, or the default pair when that is the undetected
\* sentinel (0, none).
C8_Deduce ==
  (call.fn = "DeduceVersionProfile" /\ ret.status = "returned")
  => IF call.last_forced # <<>>
       THEN ret.value = call.last_forced
       ELSE LET parsed == GetVersionProfileFromSourceCode(call.preprocessed_shader)
            IN /\ parsed # <<0, "ENoProfile">> => ret.value = parsed
               /\ parsed = <<0, "ENoProfile">> => ret.value = <<110, "ENoProfile">>
               /\ call.preprocessed_shader = <<"#","v","e","r","s","i","o","n"," ","3","1","0"," ","e","s","\n">>
                    => ret.value = <<310, "EEsProfile">>
               /\ call.preprocessed_shader = <<"i","n","t"," ","x",";","\n","#","v","e","r","s","i","o","n"," ","4","x","0","\n">>
                    => ret.value = <<110, "ENoProfile">>

C8_Witness ==
  /\ call.fn = "DeduceVersionProfile" /\ ret.status = "returned"
  /\ call.last_forced = <<150, "ECoreProfile">>
  /\ GetVersionProfileFromSourceCode(call.preprocessed_shader)
       = <<310, "EEsProfile">>
  /\ ret.value = <<150, "ECoreProfile">>

Called(x) == \E k \in 1..Len(calls) : calls[k] = x

Position(x) == CHOOSE k \in 1..Len(calls) : calls[k] = x

\* C9: parse, link and code generation come only after the stage is resolved
\* to a real stage: never after a failed preprocess, after a diagnostic of
\* the scanner (which is written to the error stream and ends Compile with
\* false, stage_callback not called), after stage_callback returned the
\* sentinel, or in preprocess-only mode; stage_callback is called only when no
\* stage was forced, preprocessing succeeded and the scanner returned the
\* sentinel with no diagnostics; nothing runs after a failed preprocess.
C9_CompileOrder ==
  compile.pc # "idle"
  => /\ \A x \in {"parse", "link", "GlslangToSpv"} :
          Called(x)
          => /\ compile.used_shader_stage # "EShLangCount"
             /\ compile.preprocessed # "failed"
             /\ compile.scanned # "errors"
             /\ compile.callback # "undetected"
             /\ ~compile.preprocess_only
             /\ compile.forced_shader_stage = "EShLangCount"
                  => Called("GetShaderStageFromSourceCode")
             /\ \A y \in {"PreprocessShader", "CleanupPreamble",
                          "GetShaderStageFromSourceCode", "stage_callback"} :
                  Called(y) => Position(y) < Position(x)
     /\ Called("link") => Called("parse") /\ Position("parse") < Position("link")
     /\ Called("GlslangToSpv")
          => Called("link") /\ Position("link") < Position("GlslangToSpv")
     /\ compile.scanned = "errors"
          => /\ compile.pc = "done" /\ compile.result = FALSE
             /\ compile.errors # <<>>
             /\ compile.error_stream = compile.errors
             /\ ~Called("stage_callback")
     /\ Called("stage_callback")
          => /\ compile.forced_shader_stage = "EShLangCount"
             /\ compile.preprocessed = "ok"
             /\ compile.scanned = "undetected"
             /\ compile.errors = <<>>
             /\ ~compile.preprocess_only
     /\ compile.preprocessed = "failed"
          => /\ calls = <<"PreprocessShader">>
             /\ compile.pc = "done" /\ compile.result = FALSE

C9_Witness ==
  /\ compile.pc = "done"
  /\ calls = <<"PreprocessShader", "CleanupPreamble",
               "GetShaderStageFromSourceCode", "stage_callback",
               "parse", "link", "GlslangToSpv", "WriteFile">>
  /\ compile.used_shader_stage = "EShLangFragment"
  /\ compile.error_stream # <<>>

====
